---- MODULE Spec2Model ----
(***************************************************************************)
(* Model of auto_commit.py: one run of main(), which draws a batch size,   *)
(* and for each attempt appends an entry to the activity log, stages the   *)
(* working tree and commits it.                                            *)
(*                                                                         *)
(* The filesystem and git are the environment.  Every library call that    *)
(* can fail is one action whose outcomes are the ones the call can         *)
(* produce:                                                                *)
(*   - Path.exists()            : answer, or OSError                       *)
(*   - Path.write_text(header)  : OSError at open (nothing created),       *)
(*                                OSError at write (file created by the    *)
(*                                "w" open, nothing written), or success   *)
(*   - open(.., "a") + write    : OSError (nothing written) or success     *)
(*   - subprocess.run(git ..)   : exit 0, non-zero exit                    *)
(*                                (CalledProcessError), or OSError when    *)
(*                                the executable cannot be started         *)
(* One write call is the unit of I/O: it writes its whole buffer or        *)
(* nothing.  Writes to standard output are assumed not to fail.            *)
(* The timestamp and weekday of an entry and the date of a message are     *)
(* left out of the entry/message values; only the numbers are kept.        *)
(***************************************************************************)
EXTENDS Integers, Sequences, FiniteSets, TLC

VARIABLES
    pc,                  \* position in main()/make_commit()/append_to_log()
    num_commits,         \* main: num_commits (0 before it is drawn)
    i,                   \* main: loop variable
    successful_commits,  \* main: successful_commits
    summary,             \* the "Completed: s/n" line, once printed
    exit_code,           \* process exit status, -1 while running
    log_file,            \* the file activity_log.md on disk
    entry,               \* make_commit/append_to_log: entry
    append_result,       \* return value of the last append_to_log call
    message,             \* make_commit: message
    index,               \* git staging area: staged content of the log file
    commits,             \* git history: committed content of the log file
    attempts,            \* history: what each make_commit call did
    calls,               \* history: the append_to_log calls of the harness
    file0                \* history: the log file when the run began

vars == <<pc, num_commits, i, successful_commits, summary, exit_code,
          log_file, entry, append_result, message, index, commits,
          attempts, calls, file0>>

----------------------------------------------------------------------------
(* Bounds *)

\* entries left in the log file by earlier runs
MaxPrior == 1
\* append_to_log calls made by the harness of SpecLog
MaxAppends == 3

----------------------------------------------------------------------------
(* Program constants *)

MinCommits == 1
MaxCommits == 3
NumTemplates == 5

----------------------------------------------------------------------------
(* Values *)

\* the text "# Activity Log\n\nAutomated activity entries:\n\n"
Header == [kind |-> "header", commit_number |-> 0, total_commits |-> 0]

\* "[<timestamp>] Activity log - <weekday> - Commit c/t\n"
create_log_entry(c, t) ==
    [kind |-> "entry", commit_number |-> c, total_commits |-> t]

NoEntry == [kind |-> "none", commit_number |-> 0, total_commits |-> 0]

\* templates 1, 3, 4, 5 embed #commit_number; template 2 has no slot for it
generate_commit_message(c, t) ==
    [template |-> t, commit_number |-> IF t = 2 THEN 0 ELSE c]

NoMessage == [template |-> 0, commit_number |-> 0]

NoSummary == [succeeded |-> -1, total |-> -1]

Absent == [exists |-> FALSE, content |-> <<>>]

File(c) == [exists |-> TRUE, content |-> c]

RECURSIVE Repeat(_, _)
Repeat(x, k) == IF k = 0 THEN <<>> ELSE <<x>> \o Repeat(x, k - 1)

\* a log file as an earlier run that met no error leaves it
PriorFile(k) == File(<<Header>> \o Repeat(create_log_entry(1, 1), k))

InitFiles == {Absent} \cup {PriorFile(k) : k \in 0..MaxPrior}

IsPrefix(s, t) == Len(s) <= Len(t) /\ SubSeq(t, 1, Len(s)) = s

\* f can have grown into g by appending only
FilePrefix(f, g) ==
    \/ ~f.exists
    \/ g.exists /\ IsPrefix(f.content, g.content)

HEAD == commits[Len(commits)]

NewAttempt(c) ==
    [commit_number |-> c, append |-> "pending", stage |-> "none",
     message |-> NoMessage, commit |-> "none", ret |-> "none"]

Cur == attempts[Len(attempts)]

SetCur(r) == [attempts EXCEPT ![Len(attempts)] = r]

----------------------------------------------------------------------------
(* main(), lines 141-174 *)

Init ==
    /\ pc = "start"
    /\ num_commits = 0
    /\ i = 0
    /\ successful_commits = 0
    /\ summary = NoSummary
    /\ exit_code = -1
    /\ log_file \in InitFiles
    /\ file0 = log_file
    /\ entry = NoEntry
    /\ append_result = FALSE
    /\ message = NoMessage
    /\ \E h \in InitFiles :
          /\ FilePrefix(h, log_file)
          /\ commits = <<h>>
          /\ index \in {h, log_file}
    /\ attempts = <<>>
    /\ calls = <<>>

\* num_commits = random.randint(1, 3); successful_commits = 0
DrawBatchSize ==
    /\ pc = "start"
    /\ \E n \in MinCommits..MaxCommits : num_commits' = n
    /\ successful_commits' = 0
    /\ i' = 1
    /\ pc' = "loop"
    /\ UNCHANGED <<summary, exit_code, log_file, entry, append_result,
                   message, index, commits, attempts, calls, file0>>

\* for i in range(1, num_commits + 1): make_commit(i, num_commits, log_file)
\* up to the call of append_to_log; after the last i, fall out of the loop
LoopStep ==
    /\ pc = "loop"
    /\ IF i <= num_commits
       THEN /\ entry' = create_log_entry(i, num_commits)
            /\ message' = NoMessage
            /\ attempts' = Append(attempts, NewAttempt(i))
            /\ pc' = "exists"
       ELSE /\ pc' = "summary"
            /\ UNCHANGED <<entry, message, attempts>>
    /\ UNCHANGED <<num_commits, i, successful_commits, summary, exit_code,
                   log_file, append_result, index, commits, calls, file0>>

\* ReturnToMain counting every attempt, not only the successful ones
ReturnToMainCounting(b) ==
    /\ successful_commits' = successful_commits + 1
    /\ i' = i + 1
    /\ pc' = "loop"

\* make_commit returns b to main: if make_commit(...): successful_commits += 1
ReturnToMain(b) ==
    /\ successful_commits' = IF b THEN successful_commits + 1
                                  ELSE successful_commits
    /\ i' = i + 1
    /\ pc' = "loop"

\* an exception nobody catches: traceback, exit status 1
Crash ==
    /\ pc' = "crashed"
    /\ exit_code' = 1
    /\ UNCHANGED <<i, successful_commits>>

\* Summary exiting with 0 only when every attempt succeeded
SummaryAllOrNothing ==
    /\ pc = "summary"
    /\ summary' = [succeeded |-> successful_commits, total |-> num_commits]
    /\ exit_code' = IF successful_commits < num_commits THEN 1 ELSE 0
    /\ pc' = "done"
    /\ UNCHANGED <<num_commits, i, successful_commits, log_file, entry,
                   append_result, message, index, commits, attempts, calls,
                   file0>>

\* print the summary; sys.exit(1) if successful_commits == 0 else sys.exit(0)
Summary ==
    /\ pc = "summary"
    /\ summary' = [succeeded |-> successful_commits, total |-> num_commits]
    /\ exit_code' = IF successful_commits = 0 THEN 1 ELSE 0
    /\ pc' = "done"
    /\ UNCHANGED <<num_commits, i, successful_commits, log_file, entry,
                   append_result, message, index, commits, attempts, calls,
                   file0>>

----------------------------------------------------------------------------
(* append_to_log(entry, log_file), lines 84-109 *)

\* the except IOError branch: return False
AppendFails ==
    /\ append_result' = FALSE
    /\ pc' = "append_ret"

\* Exists without the test: the header is written on every call
ExistsUnchecked ==
    /\ pc = "exists"
    /\ \/ /\ pc' = "write_text"
          /\ UNCHANGED append_result
       \/ AppendFails
    /\ UNCHANGED <<num_commits, i, successful_commits, summary, exit_code,
                   log_file, entry, message, index, commits, attempts, calls,
                   file0>>

\* if not log_file.exists():
Exists ==
    /\ pc = "exists"
    /\ \/ /\ pc' = (IF log_file.exists THEN "append_entry" ELSE "write_text")
          /\ UNCHANGED append_result
       \/ AppendFails
    /\ UNCHANGED <<num_commits, i, successful_commits, summary, exit_code,
                   log_file, entry, message, index, commits, attempts, calls,
                   file0>>

\* log_file.write_text(header)
WriteText ==
    /\ pc = "write_text"
    /\ \/ /\ log_file' = File(<<Header>>)
          /\ pc' = "append_entry"
          /\ UNCHANGED append_result
       \/ /\ log_file' = File(<<>>)
          /\ AppendFails
       \/ /\ UNCHANGED log_file
          /\ AppendFails
    /\ UNCHANGED <<num_commits, i, successful_commits, summary, exit_code,
                   entry, message, index, commits, attempts, calls, file0>>

\* AppendEntry opening the file with "w" instead of "a"
AppendEntryTruncating ==
    /\ pc = "append_entry"
    /\ \/ /\ log_file' = File(<<entry>>)
          /\ append_result' = TRUE
          /\ pc' = "append_ret"
       \/ /\ UNCHANGED log_file
          /\ AppendFails
    /\ UNCHANGED <<num_commits, i, successful_commits, summary, exit_code,
                   entry, message, index, commits, attempts, calls, file0>>

\* with open(log_file, "a") as f: f.write(entry);  return True
AppendEntry ==
    /\ pc = "append_entry"
    /\ \/ /\ log_file' = File(log_file.content \o <<entry>>)
          /\ append_result' = TRUE
          /\ pc' = "append_ret"
       \/ /\ UNCHANGED log_file
          /\ AppendFails
    /\ UNCHANGED <<num_commits, i, successful_commits, summary, exit_code,
                   entry, message, index, commits, attempts, calls, file0>>

----------------------------------------------------------------------------
(* make_commit(commit_number, total_commits, log_file), lines 112-138 *)

\* AfterAppend going on to git add whatever append_to_log returned
AfterAppendUnchecked ==
    /\ pc = "append_ret"
    /\ attempts' = SetCur([Cur EXCEPT
                             !.append = IF append_result THEN "ok" ELSE "fail"])
    /\ pc' = "stage"
    /\ UNCHANGED <<num_commits, i, successful_commits, summary, exit_code,
                   log_file, entry, append_result, message, index, commits,
                   calls, file0>>

\* if not append_to_log(entry, log_file): return False
AfterAppend ==
    /\ pc = "append_ret"
    /\ IF append_result
       THEN /\ attempts' = SetCur([Cur EXCEPT !.append = "ok"])
            /\ pc' = "stage"
            /\ UNCHANGED <<i, successful_commits>>
       ELSE /\ attempts' = SetCur([Cur EXCEPT !.append = "fail",
                                              !.ret = "false"])
            /\ ReturnToMain(FALSE)
    /\ UNCHANGED <<num_commits, summary, exit_code, log_file, entry,
                   append_result, message, index, commits, calls, file0>>

\* Stage going on to the commit when git add exits non-zero
StageUnchecked ==
    /\ pc = "stage"
    /\ \/ /\ index' = log_file
          /\ attempts' = SetCur([Cur EXCEPT !.stage = "ok"])
          /\ pc' = "message"
          /\ UNCHANGED <<i, successful_commits, exit_code>>
       \/ /\ UNCHANGED index
          /\ attempts' = SetCur([Cur EXCEPT !.stage = "fail"])
          /\ pc' = "message"
          /\ UNCHANGED <<i, successful_commits, exit_code>>
       \/ /\ UNCHANGED index
          /\ attempts' = SetCur([Cur EXCEPT !.stage = "raise",
                                            !.ret = "raise"])
          /\ Crash
    /\ UNCHANGED <<num_commits, summary, log_file, entry, append_result,
                   message, commits, calls, file0>>

\* if not run_git_command(["git", "add", "."]): return False
Stage ==
    /\ pc = "stage"
    /\ \/ /\ index' = log_file
          /\ attempts' = SetCur([Cur EXCEPT !.stage = "ok"])
          /\ pc' = "message"
          /\ UNCHANGED <<i, successful_commits, exit_code>>
       \/ /\ UNCHANGED index
          /\ attempts' = SetCur([Cur EXCEPT !.stage = "fail",
                                            !.ret = "false"])
          /\ ReturnToMain(FALSE)
          /\ UNCHANGED exit_code
       \/ /\ UNCHANGED index
          /\ attempts' = SetCur([Cur EXCEPT !.stage = "raise",
                                            !.ret = "raise"])
          /\ Crash
    /\ UNCHANGED <<num_commits, summary, log_file, entry, append_result,
                   message, commits, calls, file0>>

\* message = generate_commit_message(commit_number)
BuildMessage ==
    /\ pc = "message"
    /\ \E t \in 1..NumTemplates :
          /\ message' = generate_commit_message(Cur.commit_number, t)
          /\ attempts' = SetCur([Cur EXCEPT !.message = message'])
    /\ pc' = "commit"
    /\ UNCHANGED <<num_commits, i, successful_commits, summary, exit_code,
                   log_file, entry, append_result, index, commits, calls,
                   file0>>

\* Commit un-staging the changes (git reset) when git commit exits non-zero
CommitWithReset ==
    /\ pc = "commit"
    /\ \/ /\ index # HEAD
          /\ commits' = Append(commits, index)
          /\ attempts' = SetCur([Cur EXCEPT !.commit = "ok", !.ret = "true"])
          /\ ReturnToMain(TRUE)
          /\ UNCHANGED <<exit_code, index>>
       \/ /\ UNCHANGED commits
          /\ index' = HEAD
          /\ attempts' = SetCur([Cur EXCEPT !.commit = "fail",
                                            !.ret = "false"])
          /\ ReturnToMain(FALSE)
          /\ UNCHANGED exit_code
       \/ /\ UNCHANGED <<commits, index>>
          /\ attempts' = SetCur([Cur EXCEPT !.commit = "raise",
                                            !.ret = "raise"])
          /\ Crash
    /\ UNCHANGED <<num_commits, summary, log_file, entry, append_result,
                   message, calls, file0>>

\* if not run_git_command(["git", "commit", "-m", message]): return False
\* return True
\* (git commit exits non-zero when nothing is staged)
Commit ==
    /\ pc = "commit"
    /\ \/ /\ index # HEAD
          /\ commits' = Append(commits, index)
          /\ attempts' = SetCur([Cur EXCEPT !.commit = "ok", !.ret = "true"])
          /\ ReturnToMain(TRUE)
          /\ UNCHANGED exit_code
       \/ /\ UNCHANGED commits
          /\ attempts' = SetCur([Cur EXCEPT !.commit = "fail",
                                            !.ret = "false"])
          /\ ReturnToMain(FALSE)
          /\ UNCHANGED exit_code
       \/ /\ UNCHANGED commits
          /\ attempts' = SetCur([Cur EXCEPT !.commit = "raise",
                                            !.ret = "raise"])
          /\ Crash
    /\ UNCHANGED <<num_commits, summary, log_file, entry, append_result,
                   message, index, calls, file0>>

----------------------------------------------------------------------------

Next ==
    \/ DrawBatchSize
    \/ LoopStep
    \/ Exists
    \/ WriteText
    \/ AppendEntry
    \/ AfterAppend
    \/ Stage
    \/ BuildMessage
    \/ Commit
    \/ Summary

Spec == Init /\ [][Next]_vars

----------------------------------------------------------------------------
(* append_to_log driven on its own: a caller that appends up to MaxAppends *)
(* entries to one path, whatever each call returns                         *)

LogEntries ==
    UNION {{create_log_entry(c, t) : c \in 1..t} :
              t \in MinCommits..MaxCommits}

InitLog ==
    /\ pc = "idle"
    /\ num_commits = 0
    /\ i = 0
    /\ successful_commits = 0
    /\ summary = NoSummary
    /\ exit_code = -1
    /\ log_file \in InitFiles
    /\ file0 = log_file
    /\ entry = NoEntry
    /\ append_result = FALSE
    /\ message = NoMessage
    /\ index = Absent
    /\ commits = <<Absent>>
    /\ attempts = <<>>
    /\ calls = <<>>

\* append_to_log(entry, log_file) is called
CallAppend ==
    /\ pc = "idle"
    /\ Len(calls) < MaxAppends
    /\ entry' \in LogEntries
    /\ pc' = "exists"
    /\ UNCHANGED <<num_commits, i, successful_commits, summary, exit_code,
                   log_file, append_result, message, index, commits,
                   attempts, calls, file0>>

\* append_to_log returns to that caller
ReturnAppend ==
    /\ pc = "append_ret"
    /\ calls' = Append(calls, [entry |-> entry, ok |-> append_result])
    /\ pc' = "idle"
    /\ UNCHANGED <<num_commits, i, successful_commits, summary, exit_code,
                   log_file, entry, append_result, message, index, commits,
                   attempts, file0>>

NextLog ==
    \/ CallAppend
    \/ Exists
    \/ WriteText
    \/ AppendEntry
    \/ ReturnAppend

SpecLog == InitLog /\ [][NextLog]_vars

----------------------------------------------------------------------------
(* Properties *)

Ended == pc \in {"done", "crashed"}

\* the attempts that returned success
Succeeded == {k \in 1..Len(attempts) : attempts[k].ret = "true"}

\* the attempts in which append, stage and commit all succeeded
AllStepsOk ==
    {k \in 1..Len(attempts) : /\ attempts[k].append = "ok"
                              /\ attempts[k].stage = "ok"
                              /\ attempts[k].message # NoMessage
                              /\ attempts[k].commit = "ok"}

IsEntry(x) == x.kind = "entry"

IsHeader(x) == x.kind = "header"

HeaderCount(f) == Len(SelectSeq(f.content, IsHeader))

\* what the file holds beyond what it held when the run began
Added(f) == SubSeq(f.content, Len(file0.content) + 1, Len(f.content))

AppendOk(a) == a.append = "ok"

\* the entries of the attempts whose append succeeded, in attempt order
EntriesOfAttempts ==
    LET ok == SelectSeq(attempts, AppendOk)
    IN  [k \in 1..Len(ok) |->
            create_log_entry(ok[k].commit_number, num_commits)]

\* C1: a run that reaches the end of the batch loop exits with 0 when at
\* least one attempt returned success and with 1 when none did.
C1_ExitCode ==
    pc = "done" =>
        /\ Len(attempts) = num_commits
        /\ (Cardinality(Succeeded) >= 1 => exit_code = 0)
        /\ (Cardinality(Succeeded) = 0 => exit_code = 1)

\* a finished run with a failed and a successful attempt
C1_Witness ==
    /\ pc = "done"
    /\ exit_code = 0
    /\ \E k \in 1..Len(attempts) : attempts[k].ret = "false"
    /\ \E k \in 1..Len(attempts) : attempts[k].ret = "true"

\* a finished run in which no attempt succeeded
C1_WitnessNone ==
    pc = "done" /\ Succeeded = {} /\ exit_code = 1

\* C2: k >= 1 appends to a path that did not exist, all of them succeeding,
\* leave exactly one header followed by the k entries in call order; and an
\* append to a file that exists never adds a header.
C2_HeaderOnceThenEntries ==
    /\ [](pc = "idle" /\ ~file0.exists /\ Len(calls) >= 1
            /\ (\A k \in 1..Len(calls) : calls[k].ok)
          => log_file = File(<<Header>> \o
                             [k \in 1..Len(calls) |-> calls[k].entry]))
    /\ [][log_file.exists => HeaderCount(log_file') = HeaderCount(log_file)]_vars

\* two or more successful appends to a fresh path
C2_Witness ==
    /\ pc = "idle"
    /\ ~file0.exists
    /\ Len(calls) >= 2
    /\ \A k \in 1..Len(calls) : calls[k].ok
    /\ HeaderCount(log_file) = 1

\* C3: in an attempt whose append failed, git add and git commit are not
\* invoked, no message is built, and the attempt returns failure.
C3_AppendFailureShortCircuits ==
    \A k \in 1..Len(attempts) :
        attempts[k].append = "fail" =>
            /\ attempts[k].stage = "none"
            /\ attempts[k].message = NoMessage
            /\ attempts[k].commit = "none"
            /\ attempts[k].ret = "false"

\* an attempt whose append failed, after which the run went on
C3_Witness ==
    /\ pc = "stage"
    /\ \E k \in 1..Len(attempts) : attempts[k].append = "fail"

\* C4: in an attempt whose git add exited non-zero, git commit is not
\* invoked, no message is built, and the attempt returns failure.
C4_StageFailureShortCircuits ==
    \A k \in 1..Len(attempts) :
        attempts[k].stage = "fail" =>
            /\ attempts[k].append = "ok"
            /\ attempts[k].message = NoMessage
            /\ attempts[k].commit = "none"
            /\ attempts[k].ret = "false"

\* an attempt whose git add failed, followed by one that reached git commit
C4_Witness ==
    /\ pc = "commit"
    /\ \E k \in 1..Len(attempts) : attempts[k].stage = "fail"

\* C5: the batch size is 1, 2 or 3, and the attempts started by the end of a
\* run are exactly 1..n in order, whatever step failed in any of them.
C5_AttemptsOneToN ==
    /\ pc # "start" => num_commits \in 1..3
    /\ \A k \in 1..Len(attempts) : attempts[k].commit_number = k
    /\ Ended => Len(attempts) = num_commits

\* C6: an attempt returns success only if append, stage, message and commit
\* all succeeded; the printed count is the number of such attempts and is
\* at most the printed total.
C6_SuccessMeansAllSteps ==
    /\ Succeeded = {k \in AllStepsOk : attempts[k].ret = "true"}
    /\ summary # NoSummary =>
          /\ summary.succeeded = Cardinality(AllStepsOk)
          /\ summary.total = num_commits
          /\ summary.succeeded <= summary.total

\* a summary of a run in which an attempt succeeded and every kind of
\* step failed in some other attempt
C6_Witness ==
    /\ summary # NoSummary
    /\ summary.succeeded = 1
    /\ summary.total = 3
    /\ \E k \in 1..Len(attempts) : attempts[k].commit = "fail"
    /\ \E k \in 1..Len(attempts) : attempts[k].stage = "fail"

\* C7: no failure of the append or of a git invocation escapes as an
\* exception; the only failure signal is exit code 1 with no success.
C7_NoExceptionEscapes ==
    /\ pc # "crashed"
    /\ exit_code = 1 => successful_commits = 0

\* C8: the log file does not exist or begins with the header.
C8_BeginsWithHeader ==
    \/ ~log_file.exists
    \/ /\ Len(log_file.content) >= 1
       /\ log_file.content[1] = Header

\* C9: the file only grows by appending; at the end of a run what was added
\* is (the header, if the file was created, then) one entry i/n per attempt
\* whose append succeeded, in order; and with n = 2, attempt 1 succeeding
\* and the append of attempt 2 failing: one entry added, summary 1/2, exit 0.
C9_AppendOnly ==
    /\ [][FilePrefix(log_file, log_file')]_vars
    /\ [](Ended =>
            /\ SelectSeq(Added(log_file), IsEntry) = EntriesOfAttempts
            /\ Len(SelectSeq(Added(log_file), IsHeader)) <= 1)
    /\ [](/\ pc = "done"
          /\ num_commits = 2
          /\ attempts[1].ret = "true"
          /\ attempts[2].append = "fail"
          => /\ Len(SelectSeq(Added(log_file), IsEntry)) = 1
             /\ summary = [succeeded |-> 1, total |-> 2]
             /\ exit_code = 0)

\* the run of the example
C9_Witness ==
    /\ pc = "done"
    /\ num_commits = 2
    /\ attempts[1].ret = "true"
    /\ attempts[2].append = "fail"
    /\ file0.exists

\* a run that kept the entry of an attempt whose commit failed
C9_WitnessKept ==
    /\ Ended
    /\ Len(attempts) = 3
    /\ attempts[1].commit = "fail"
    /\ attempts[2].stage = "fail"
    /\ Len(SelectSeq(Added(log_file), IsEntry)) = 3

\* C10: a failed stage or commit changes neither the log file nor the
\* staging area, and right after a successful commit the committed log
\* content is the content on disk.
C10_NoRollback ==
    /\ [][(pc = "stage" /\ pc' # "message") \/ pc = "commit"
            => index' = index /\ log_file' = log_file]_vars
    /\ [][pc = "stage" /\ pc' = "message"
            => index' = log_file /\ log_file' = log_file]_vars
    /\ [][Len(commits') > Len(commits)
            => HEAD' = log_file' /\ HEAD' = index]_vars

\* a successful commit that carries the entries of two attempts of this
\* run, the first of which failed at its commit
C10_Witness ==
    /\ Len(attempts) >= 2
    /\ attempts[1].commit = "fail"
    /\ attempts[2].ret = "true"
    /\ Len(commits) = 2
    /\ commits[1] = file0
    /\ Len(commits[2].content) >= Len(file0.content) + 2
    /\ commits[2] = log_file

====
